---- MODULE Spec2Model ----
(***************************************************************************)
(* A model of src/kubernetes/statefulset.rs: the StatefulSet catalog       *)
(* (KubernetesStatefulSetResource::list) and the StatefulSet handle        *)
(* (KubernetesStatefulSetObject: namespace_and_name, last_modified,        *)
(* replicas, pod_ips, scale), together with the API server the handlers    *)
(* talk to: its objects, the requests in flight and their responses.       *)
(*                                                                         *)
(* Spec        the catalog and scale(): concurrent callers, other actors.  *)
(* SpecHandle  the accessors of one handle, over all bounded snapshots.    *)
(*                                                                         *)
(* scale() has one .await: the model cuts it there, into the part that     *)
(* reads the clock and issues the patch request (ScaleBegin), the server's *)
(* handling of the request (ServerPatch, RequestFails) and the return      *)
(* (ScaleReturnOk, ScaleReturnErr). serde_json::to_vec of a json! value of *)
(* strings and one integer cannot fail, so Error::JsonSerialization has no *)
(* step. list() reads the server once, at ListOk or ListFail.              *)
(***************************************************************************)
EXTENDS Integers, Sequences, FiniteSets, TLC

VARIABLES
    now,        \* the wall clock Utc::now() reads
    remote,     \* the API server's StatefulSet objects, in server order
    calls,      \* the scale() calls: position, arguments, request, result
    lastWriter, \* per object: the scale() call whose patch was applied last, 0 if none or another actor
    version,    \* per object: the writes the server has applied to it
    handles,    \* the KubernetesStatefulSetObject values the program holds
    origin,     \* per handle, when list() created it: its object, the object's version, the calls returned
    captured,   \* per handle: what its accessors returned when it was created
    listLog,    \* the last list() call: request, response, requests issued, result
    nLists,     \* list() calls so far
    nEnv,       \* mutations by other actors so far
    pods,       \* the API server's Pod objects
    ret         \* the last accessor call: operation, result, pod list requests issued

vars == <<now, remote, calls, lastWriter, version, handles, origin, captured,
          listLog, nLists, nEnv, pods, ret>>

-----------------------------------------------------------------------------
(* Bounds *)

\* Width of spec.replicas (i32) and of scale()'s argument (u32), scaled down from 32.
IntBits == 3
\* Largest clock reading.
MaxClock == 2
\* scale() calls in one run; they may overlap.
MaxCalls == 2
\* list() calls in one run.
MaxLists == 2
\* Writes to the StatefulSets by other actors in one run.
MaxEnv == 1

I32Min == -(2 ^ (IntBits - 1))
I32Max == (2 ^ (IntBits - 1)) - 1
U32Max == (2 ^ IntBits) - 1
I32 == I32Min .. I32Max
U32 == 0 .. U32Max

-----------------------------------------------------------------------------
(* Values *)

None == [tag |-> "None"]
Some(v) == [tag |-> "Some", v |-> v]
Ok(v) == [tag |-> "Ok", v |-> v]
Err(e) == [tag |-> "Err", e |-> e]
\* .unwrap() on an Err: the calling task panics and no value is returned.
Panic == [tag |-> "Panic"]

\* i32 as u32: the value modulo 2^width.
AsU32(i) == i % (2 ^ IntBits)

\* An annotation value is a string. Its model: wf says whether the text is
\* RFC3339; if so it reads local time `local` at UTC offset `off`.
Rfc3339Text(local, off) == [wf |-> TRUE, local |-> local, off |-> off]
NotATimestamp == [wf |-> FALSE, local |-> 0, off |-> 0]

\* DateTime<Utc>::to_rfc3339: the UTC instant, offset +00:00.
\* Faulty variant ToRfc3339Wrapping: a field of the text wraps, as a 12-hour
\* %I in place of %H would.
ToRfc3339Wrapping(t) == Rfc3339Text(t % 2, 0)
ToRfc3339(t) == Rfc3339Text(t, 0)

\* DateTime::<FixedOffset>::parse_from_rfc3339
ParseFromRfc3339(s) == IF s.wf THEN Ok([local |-> s.local, off |-> s.off])
                       ELSE Err("ParseError")

\* DateTime<FixedOffset>::naive_utc, then DateTime::from_utc(_, Utc)
NaiveUtc(dt) == dt.local - dt.off

\* "{ANNOTATION_BASE}/last_modified"
LastModifiedKey == "ANNOTATION_BASE/last_modified"

NoAnnotations == [k \in {} |-> NotATimestamp]
Annotated(s) == [k \in {LastModifiedKey} |-> s]
\* BTreeMap::get
Get(m, k) == IF k \in DOMAIN m THEN Some(m[k]) ELSE None

-----------------------------------------------------------------------------
(* The API server's objects *)

\* A label map is the set of its "key=value" terms.
\* build_label_selector (crate::kubernetes::common): the canonical selector of
\* a map; equal maps give equal selectors whatever the insertion order.
BuildLabelSelector(match_labels) == match_labels
\* The server's selector match: every term of the selector is a label of the object.
SelectorMatches(selector, labels) == selector \subseteq labels

Template(labels) == [metadata |-> Some([labels |-> Some(labels)])]

StatefulSet(ns, name, labels, annotations, replicas, template) ==
    [ namespace |-> ns,
      metadata  |-> [name |-> name, labels |-> labels, annotations |-> annotations],
      spec      |-> [replicas |-> replicas, template |-> template] ]

\* The StatefulSets the server starts with, in the order it lists them.
InitialRemote ==
    << StatefulSet("prod", "db", {"app=store"}, NoAnnotations, Some(1), Template({"app=db"})),
       StatefulSet("prod", "cache", {"app=web"}, NoAnnotations, Some(2), Template({"app=cache"})),
       StatefulSet("prod", "queue", {"app=store"}, Annotated(NotATimestamp), None, Template({"app=queue"})),
       StatefulSet("default", "db", {"app=store"}, NoAnnotations, Some(1), Template({"app=db"})) >>

ObjIds == DOMAIN InitialRemote

\* The object a request names, 0 if the server has none.
FindObj(objs, ns, name) ==
    IF \E o \in DOMAIN objs : objs[o].namespace = ns /\ objs[o].metadata.name = name
    THEN CHOOSE o \in DOMAIN objs : objs[o].namespace = ns /\ objs[o].metadata.name = name
    ELSE 0

-----------------------------------------------------------------------------
(* KubernetesStatefulSetResource *)

Resource(ns, match_labels) ==
    [namespace |-> ns, label_selector |-> BuildLabelSelector(match_labels)]

\* The catalogs the control loop has constructed.
Resources == { Resource("prod", {"app=store"}), Resource("prod", {"app=none"}) }

\* KubernetesStatefulSetObject::new: the namespace, and clones of metadata and spec.
NewObject(ns, metadata, spec) ==
    [namespace |-> ns, metadata |-> metadata, spec |-> spec]

\* The list request list() issues.
ListRequest(res) == [namespace |-> res.namespace, label_selector |-> res.label_selector]

\* The server's answer to a list request: the matching objects, in its order.
ServerList(objs, req) ==
    SelectSeq(objs, LAMBDA ss : /\ ss.namespace = req.namespace
                                /\ SelectorMatches(req.label_selector, ss.metadata.labels))

\* The loop of list(): one handle per object of the response, in order.
\* Faulty variant ListObjectsRev: the handles in the opposite order.
ListObjectsRev(res, statefulsets) ==
    [i \in 1 .. Len(statefulsets) |->
        NewObject(res.namespace, statefulsets[Len(statefulsets) + 1 - i].metadata,
                  statefulsets[Len(statefulsets) + 1 - i].spec)]
ListObjects(res, statefulsets) ==
    [i \in 1 .. Len(statefulsets) |->
        NewObject(res.namespace, statefulsets[i].metadata, statefulsets[i].spec)]

\* list(): the response is a failure ("Err") or the objects; `?` returns the
\* failure as Error::Kube.
ListResult(res, response) ==
    IF response.tag = "Err" THEN Err("Kube")
    ELSE Ok(ListObjects(res, response.v))

-----------------------------------------------------------------------------
(* KubernetesStatefulSetObject: the accessors *)

NamespaceAndName(self) == <<self.namespace, self.metadata.name>>

\* last_modified(): the annotation is absent -> Ok(None); present -> parsed and
\* unwrapped, which panics on a parse error.
LastModified(self) ==
    LET a == Get(self.metadata.annotations, LastModifiedKey) IN
    IF a.tag = "None" THEN Ok(None)
    ELSE LET parsed == ParseFromRfc3339(a.v) IN
         IF parsed.tag = "Err" THEN Panic
         ELSE Ok(Some(NaiveUtc(parsed.v)))

\* replicas(): None -> Error::KubeSpec; Some(r) -> r as u32.
\* Faulty variant ReplicasOrZero: unwrap_or(0) in place of the error.
ReplicasOrZero(self) ==
    IF self.spec.replicas.tag = "None" THEN Ok(0)
    ELSE Ok(AsU32(self.spec.replicas.v))
Replicas(self) ==
    IF self.spec.replicas.tag = "None" THEN Err("KubeSpec")
    ELSE Ok(AsU32(self.spec.replicas.v))

\* The pod-template labels pod_ips() needs: template.metadata and its labels
\* must both be present, else Error::KubeSpec.
\* Faulty variant TemplateLabelsOrEmpty: absent labels taken as the empty map.
TemplateLabelsOrEmpty(self) ==
    IF self.spec.template.metadata.tag = "None" THEN Ok({})
    ELSE IF self.spec.template.metadata.v.labels.tag = "None" THEN Ok({})
    ELSE Ok(self.spec.template.metadata.v.labels.v)
TemplateLabels(self) ==
    IF self.spec.template.metadata.tag = "None" THEN Err("KubeSpec")
    ELSE IF self.spec.template.metadata.v.labels.tag = "None" THEN Err("KubeSpec")
    ELSE Ok(self.spec.template.metadata.v.labels.v)

Phases == {"Pending", "Running", "Succeeded", "Failed", "Unknown"}

\* The server's answer to the pod list request of get_running_pod_ips.
ServerListPods(podList, ns, selector) ==
    SelectSeq(podList, LAMBDA p : /\ p.namespace = ns
                                  /\ SelectorMatches(selector, p.labels))

\* What get_running_pod_ips keeps of the response: the IPs of the pods that
\* are Running and have an IP, in the order of the response.
RunningPodIps(podList) ==
    LET kept == SelectSeq(podList, LAMBDA p : p.phase = "Running" /\ p.ip.tag = "Some")
    IN  [i \in 1 .. Len(kept) |-> kept[i].ip.v]

\* get_running_pod_ips (crate::kubernetes::common): one pod list request in
\* the namespace, filtered by the selector built from the labels.
\* transport: whether the request succeeds.
GetRunningPodIps(podList, ns, labels, transport) ==
    IF transport
    THEN [result |-> Ok(RunningPodIps(ServerListPods(podList, ns, BuildLabelSelector(labels)))),
          requests |-> 1]
    ELSE [result |-> Err("Kube"), requests |-> 1]

\* pod_ips(): the result and the number of pod list requests issued.
PodIps(self, podList, transport) ==
    LET labels == TemplateLabels(self) IN
    IF labels.tag = "Err" THEN [result |-> labels, requests |-> 0]
    ELSE GetRunningPodIps(podList, self.namespace, labels.v, transport)

-----------------------------------------------------------------------------
(* KubernetesStatefulSetObject::scale *)

\* Utc::now()
UtcNow == now

\* The json! patch of scale(): the annotation and spec.replicas in one body.
\* Faulty variant PatchBodyAnnotationOnly: spec.replicas left out of the body.
PatchBodyAnnotationOnly(replicas, utc_now) ==
    [annotation |-> Some(ToRfc3339(utc_now)), replicas |-> None]
PatchBody(replicas, utc_now) ==
    [annotation |-> Some(ToRfc3339(utc_now)), replicas |-> Some(replicas)]

\* The patch request: Api::v1StatefulSet.within(namespace).patch(name, .., body)
\* Faulty variant PatchRequestDefaultNamespace: .within(&self.namespace) lost.
PatchRequestDefaultNamespace(self, body) ==
    [namespace |-> "default", name |-> self.metadata.name, body |-> body]
PatchRequest(self, body) ==
    [namespace |-> self.namespace, name |-> self.metadata.name, body |-> body]

\* scale() takes &self: the handle is the same after the call.
\* Faulty variant SelfAfterScaleCached: the handle records what it sent.
SelfAfterScaleCached(self, replicas, utc_now) ==
    [self EXCEPT !.spec.replicas = Some(replicas),
                 !.metadata.annotations = Annotated(ToRfc3339(utc_now))]
SelfAfterScale(self, replicas, utc_now) == self

\* The server decodes spec.replicas into an int32 and validates it as
\* non-negative: any other number is refused.
ServerAccepts(body) ==
    body.replicas.tag = "Some" => body.replicas.v \in 0 .. I32Max

\* The server merges the patch into the object, both fields in one write.
MergePatch(ss, body) ==
    [ss EXCEPT !.metadata.annotations =
                   IF body.annotation.tag = "Some"
                   THEN [k \in DOMAIN @ \cup {LastModifiedKey} |->
                            IF k = LastModifiedKey THEN body.annotation.v ELSE @[k]]
                   ELSE @,
               !.spec.replicas =
                   IF body.replicas.tag = "Some" THEN body.replicas ELSE @]

\* The `?` after the patch request's .await: a failed request ends the call
\* with Error::Kube.
\* Faulty variant AfterFailureRetry: the request is issued once more first.
AfterFailureRetry(call) ==
    IF call.sent < 2
    THEN [call EXCEPT !.pc = "sent", !.sent = @ + 1]
    ELSE [call EXCEPT !.pc = "done", !.result = Err("Kube")]
AfterFailure(call) == [call EXCEPT !.pc = "done", !.result = Err("Kube")]

\* Ok(()) after the patch request's .await succeeded.
AfterSuccess(call) == [call EXCEPT !.pc = "done", !.result = Ok("unit")]

-----------------------------------------------------------------------------
(* State *)

CallIds == 1 .. MaxCalls

IdleCall ==
    [ pc |-> "idle",      \* idle, sent, applied, refused, done
      h |-> 0,            \* the handle scale() was called on
      replicas |-> 0,     \* its argument
      utc_now |-> 0,      \* the clock reading it stamped
      request |-> None,   \* the patch request
      sent |-> 0,         \* patch requests issued
      applied |-> 0,      \* patches of this call the server applied
      obj |-> 0,          \* the object its patch was applied to
      stored |-> None,    \* the instant its patch stored in the annotation
      result |-> None,
      after |-> {},       \* the calls that had returned when this one began
      verApplied |-> 0,   \* version of the handle's object once the patch was applied
      verReturned |-> 0,  \* version of the handle's object when the call returned
      readAfter |-> None, \* the object's annotation when the call returned
      retAfter |-> {} ]   \* the calls that had returned when this one returned

\* scale()'s argument is any u32: a small count, the largest count an int32
\* holds, the first it does not.
Targets == {1, I32Max, I32Max + 1}

\* What another actor writes to an object: a replica count and an annotation.
EnvWrites ==
    { [replicas |-> Some(2), annotation |-> Annotated(Rfc3339Text(2, 1))],
      [replicas |-> None, annotation |-> Annotated(NotATimestamp)] }

\* The object other actors write as well.
EnvObjs == {FindObj(InitialRemote, "prod", "db")}

NoListYet ==
    [called |-> FALSE, res |-> Resource("", {}), request |-> ListRequest(Resource("", {})),
     response |-> Err("none"), requests |-> 0, result |-> Err("none")]

NoCallYet == [op |-> "none", result |-> None, requests |-> 0]

\* What the accessors of a handle return.
Observe(self) ==
    [ namespace_and_name |-> NamespaceAndName(self),
      replicas |-> Replicas(self),
      last_modified |-> LastModified(self) ]

\* The object a handle names.
ObjOf(self) == FindObj(InitialRemote, self.namespace, self.metadata.name)

\* The instant an annotation map holds under the last_modified key, None if
\* it holds none or no timestamp.
StoredInstant(annotations) ==
    IF LastModifiedKey \in DOMAIN annotations /\ annotations[LastModifiedKey].wf
    THEN Some(annotations[LastModifiedKey].local - annotations[LastModifiedKey].off)
    ELSE None

Init ==
    /\ now = 0
    /\ remote = InitialRemote
    /\ calls = [c \in CallIds |-> IdleCall]
    /\ lastWriter = [o \in ObjIds |-> 0]
    /\ version = [o \in ObjIds |-> 0]
    /\ handles = << >>
    /\ origin = << >>
    /\ captured = << >>
    /\ listLog = NoListYet
    /\ nLists = 0
    /\ nEnv = 0
    /\ pods = << >>
    /\ ret = NoCallYet

-----------------------------------------------------------------------------
(* Actions of Spec *)

\* The clock advances.
Tick ==
    /\ now < MaxClock
    /\ now' = now + 1
    /\ UNCHANGED <<remote, calls, lastWriter, version, handles, origin, captured,
                   listLog, nLists, nEnv, pods, ret>>

\* list() whose request the server answers.
ListOk(res) ==
    /\ nLists < MaxLists
    /\ LET request  == ListRequest(res)
           response == Ok(ServerList(remote, request))
           result   == ListResult(res, response)
       IN  /\ listLog' = [called |-> TRUE, res |-> res, request |-> request,
                          response |-> response, requests |-> 1, result |-> result]
           /\ handles' = handles \o result.v
           /\ origin' = origin \o
                  [i \in 1 .. Len(result.v) |->
                      LET o == ObjOf(result.v[i])
                      IN  [obj |-> o, ver |-> version[o],
                           returned |-> {d \in CallIds : calls[d].pc = "done"}]]
           /\ captured' = captured \o [i \in 1 .. Len(result.v) |-> Observe(result.v[i])]
    /\ nLists' = nLists + 1
    /\ UNCHANGED <<now, remote, calls, lastWriter, version, nEnv, pods, ret>>

\* list() whose request fails (network, authorization, API error).
ListFail(res) ==
    /\ nLists < MaxLists
    /\ LET request  == ListRequest(res)
           response == Err("transport")
       IN  listLog' = [called |-> TRUE, res |-> res, request |-> request,
                       response |-> response, requests |-> 1,
                       result |-> ListResult(res, response)]
    /\ nLists' = nLists + 1
    /\ UNCHANGED <<now, remote, calls, lastWriter, version, handles, origin, captured,
                   nEnv, pods, ret>>

\* scale(replicas) on handle i, up to the patch request's .await: read the
\* clock, build the patch, issue the request.
ScaleBegin(c, i, replicas) ==
    /\ calls[c].pc = "idle"
    /\ c > 1 => calls[c - 1].pc # "idle"
    /\ i \in DOMAIN handles
    /\ LET utc_now == UtcNow
           patch   == PatchBody(replicas, utc_now)
       IN  /\ calls' = [calls EXCEPT ![c] =
                  [@ EXCEPT !.pc = "sent", !.h = i, !.replicas = replicas,
                            !.utc_now = utc_now,
                            !.request = Some(PatchRequest(handles[i], patch)),
                            !.sent = 1,
                            !.after = {d \in CallIds : calls[d].pc = "done"}]]
           /\ handles' = [handles EXCEPT ![i] = SelfAfterScale(@, replicas, utc_now)]
    /\ UNCHANGED <<now, remote, lastWriter, version, origin, captured, listLog, nLists,
                   nEnv, pods, ret>>

\* The server receives the patch request of call c: it applies the patch to
\* the object named, or refuses it (no such object, an invalid value).
ServerPatch(c) ==
    /\ calls[c].pc = "sent"
    /\ LET req == calls[c].request.v
           o   == FindObj(remote, req.namespace, req.name)
       IN  IF o # 0 /\ ServerAccepts(req.body)
           THEN /\ remote' = [remote EXCEPT ![o] = MergePatch(@, req.body)]
                /\ lastWriter' = [lastWriter EXCEPT ![o] = c]
                /\ version' = [version EXCEPT ![o] = @ + 1]
                /\ calls' = [calls EXCEPT ![c] =
                       [@ EXCEPT !.pc = "applied", !.applied = @ + 1, !.obj = o,
                                 !.stored = StoredInstant(remote'[o].metadata.annotations),
                                 !.verApplied = version'[ObjOf(handles[calls[c].h])]]]
           ELSE /\ calls' = [calls EXCEPT ![c].pc = "refused"]
                /\ UNCHANGED <<remote, lastWriter, version>>
    /\ UNCHANGED <<now, handles, origin, captured, listLog, nLists, nEnv,
                   pods, ret>>

\* The patch request of call c never reaches the server, or the server
\* refuses the caller (network, authentication, authorization).
RequestFails(c) ==
    /\ calls[c].pc = "sent"
    /\ calls' = [calls EXCEPT ![c].pc = "refused"]
    /\ UNCHANGED <<now, remote, lastWriter, version, handles, origin, captured,
                   listLog, nLists, nEnv, pods, ret>>

\* The .await of call c ends with the server's answer to an applied patch.
ScaleReturnOk(c) ==
    /\ calls[c].pc = "applied"
    /\ calls' = [calls EXCEPT ![c] =
           [AfterSuccess(@) EXCEPT
               !.verReturned = version[ObjOf(handles[calls[c].h])],
               !.readAfter = StoredInstant(remote[ObjOf(handles[calls[c].h])].metadata.annotations),
               !.retAfter = {d \in CallIds : calls[d].pc = "done"}]]
    /\ UNCHANGED <<now, remote, lastWriter, version, handles, origin, captured, listLog,
                   nLists, nEnv, pods, ret>>

\* The .await of call c ends with a failure: the request was refused or lost,
\* or the answer to an applied patch was lost on its way back.
ScaleReturnErr(c) ==
    /\ calls[c].pc \in {"applied", "refused"}
    /\ calls' = [calls EXCEPT ![c] = AfterFailure(@)]
    /\ UNCHANGED <<now, remote, lastWriter, version, handles, origin, captured, listLog,
                   nLists, nEnv, pods, ret>>

\* Another actor (a user, a controller) writes object o.
EnvMutate(o, w) ==
    /\ nEnv < MaxEnv
    /\ remote' = [remote EXCEPT ![o].spec.replicas = w.replicas,
                                ![o].metadata.annotations = w.annotation]
    /\ lastWriter' = [lastWriter EXCEPT ![o] = 0]
    /\ version' = [version EXCEPT ![o] = @ + 1]
    /\ nEnv' = nEnv + 1
    /\ UNCHANGED <<now, calls, handles, origin, captured, listLog, nLists,
                   pods, ret>>

Next ==
    \/ Tick
    \/ \E res \in Resources : ListOk(res)
    \/ \E res \in Resources : ListFail(res)
    \/ \E c \in CallIds, i \in DOMAIN handles, n \in Targets : ScaleBegin(c, i, n)
    \/ \E c \in CallIds : ServerPatch(c)
    \/ \E c \in CallIds : RequestFails(c)
    \/ \E c \in CallIds : ScaleReturnOk(c)
    \/ \E c \in CallIds : ScaleReturnErr(c)
    \/ \E o \in EnvObjs, w \in EnvWrites : EnvMutate(o, w)

Spec == Init /\ [][Next]_vars

-----------------------------------------------------------------------------
(* SpecHandle: the accessors of one handle *)

\* The snapshots KubernetesStatefulSetObject::new accepts: any annotations,
\* any Option<i32>, any pod template.
AnnotationInputs ==
    { NoAnnotations, Annotated(NotATimestamp),
      Annotated(Rfc3339Text(1, 0)), Annotated(Rfc3339Text(2, 1)) }
ReplicasInputs == {None} \cup {Some(r) : r \in I32}
TemplateInputs ==
    { [metadata |-> None], [metadata |-> Some([labels |-> None])], Template({"app=db"}) }

Pod(ns, name, labels, phase, ip) ==
    [namespace |-> ns, name |-> name, labels |-> labels, phase |-> phase, ip |-> ip]

\* The pods of the server: two of the workload, in any phase, with or without
\* an IP; one of another workload; one of the same labels in another namespace.
PodInputs ==
    { << Pod("prod", "db-0", {"app=db"}, ph0, ip0),
         Pod("prod", "cache-0", {"app=cache"}, "Running", Some("10.0.0.3")),
         Pod("prod", "db-1", {"app=db", "tier=data"}, ph1, ip1),
         Pod("default", "db-0", {"app=db"}, "Running", Some("10.0.0.4")) >> :
      ph0 \in Phases, ip0 \in {None, Some("10.0.0.1")},
      ph1 \in {"Running", "Pending"}, ip1 \in {None, Some("10.0.0.2")} }

InitHandle ==
    /\ now = 0
    /\ remote = InitialRemote
    /\ calls = [c \in CallIds |-> IdleCall]
    /\ lastWriter = [o \in ObjIds |-> 0]
    /\ version = [o \in ObjIds |-> 0]
    /\ \E a \in AnnotationInputs, r \in ReplicasInputs, t \in TemplateInputs :
          handles = << NewObject("prod",
                                 [name |-> "db", labels |-> {"app=store"}, annotations |-> a],
                                 [replicas |-> r, template |-> t]) >>
    /\ origin = << [obj |-> 1, ver |-> 0, returned |-> {}] >>
    /\ captured = << >>
    /\ listLog = NoListYet
    /\ nLists = 0
    /\ nEnv = 0
    /\ pods \in PodInputs
    /\ ret = NoCallYet

HandleFrame ==
    UNCHANGED <<now, remote, calls, lastWriter, version, handles, origin, captured,
                listLog, nLists, nEnv, pods>>

CallNamespaceAndName ==
    /\ ret' = [op |-> "namespace_and_name", result |-> Ok(NamespaceAndName(handles[1])),
               requests |-> 0]
    /\ HandleFrame

CallLastModified ==
    /\ ret' = [op |-> "last_modified", result |-> LastModified(handles[1]), requests |-> 0]
    /\ HandleFrame

CallReplicas ==
    /\ ret' = [op |-> "replicas", result |-> Replicas(handles[1]), requests |-> 0]
    /\ HandleFrame

\* transport: whether the pod list request, if one is issued, succeeds.
CallPodIps(transport) ==
    /\ LET r == PodIps(handles[1], pods, transport) IN
       ret' = [op |-> "pod_ips", result |-> r.result, requests |-> r.requests]
    /\ HandleFrame

NextHandle ==
    \/ CallNamespaceAndName
    \/ CallLastModified
    \/ CallReplicas
    \/ \E transport \in BOOLEAN : CallPodIps(transport)

SpecHandle == InitHandle /\ [][NextHandle]_vars

-----------------------------------------------------------------------------
(* Claims about the accessors, under SpecHandle *)

TheHandle == handles[1]

AnnotationIsMalformed(self) ==
    /\ LastModifiedKey \in DOMAIN self.metadata.annotations
    /\ ParseFromRfc3339(self.metadata.annotations[LastModifiedKey]).tag = "Err"

\* C1: when the last_modified annotation is present but is no RFC3339
\* timestamp, last_modified() returns the recoverable error
\* AnnotationMalformed as its value; it does not panic.
C1_MalformedAnnotationIsAnError ==
    (ret.op = "last_modified" /\ AnnotationIsMalformed(TheHandle))
        => ret.result = Err("AnnotationMalformed")

TemplateLabelsAbsent(self) ==
    \/ self.spec.template.metadata.tag = "None"
    \/ self.spec.template.metadata.v.labels.tag = "None"

\* A pod pod_ips() may report: in the handle's namespace, carrying the
\* pod-template labels, Running, with an IP.
EligiblePod(self, p) ==
    /\ p.namespace = self.namespace
    /\ self.spec.template.metadata.v.labels.v \subseteq p.labels
    /\ p.phase = "Running"
    /\ p.ip.tag = "Some"

\* C5: with pod-template labels, every IP pod_ips() returns is the IP of a
\* pod of the handle's namespace that carries those labels, is Running and
\* has an IP, and no other pod owns a returned IP; without template metadata
\* or labels it fails with SpecFieldMissing (Error::KubeSpec) and issues no
\* pod list request.
C5_PodIpsOnlyRunningWithIp ==
    ret.op = "pod_ips" =>
        IF TemplateLabelsAbsent(TheHandle)
        THEN ret.result = Err("KubeSpec") /\ ret.requests = 0
        ELSE /\ ret.requests = 1
             /\ ret.result.tag = "Ok" =>
                  \A i \in DOMAIN ret.result.v :
                      /\ \E k \in DOMAIN pods : pods[k].ip = Some(ret.result.v[i])
                      /\ \A k \in DOMAIN pods :
                            pods[k].ip = Some(ret.result.v[i]) => EligiblePod(TheHandle, pods[k])

\* pod_ips() returned an IP while a Pending pod of the workload holds an IP
\* and a Running pod of another namespace carries the same labels.
C5_Witness ==
    /\ ret.op = "pod_ips"
    /\ ~TemplateLabelsAbsent(TheHandle)
    /\ ret.result = Ok(<<"10.0.0.2">>)
    /\ \E k \in DOMAIN pods :
          /\ pods[k].namespace = TheHandle.namespace
          /\ pods[k].phase = "Pending"
          /\ pods[k].ip = Some("10.0.0.1")

\* C6: when the snapshot has no spec.replicas, replicas() fails with
\* SpecFieldMissing (Error::KubeSpec); it returns no number.
C6_MissingReplicasIsAnError ==
    (ret.op = "replicas" /\ TheHandle.spec.replicas.tag = "None")
        => ret.result = Err("KubeSpec")

C6_Witness ==
    /\ ret.op = "replicas"
    /\ TheHandle.spec.replicas.tag = "None"
    /\ ret.result = Err("KubeSpec")

\* C10: when spec.replicas is present, replicas() returns the number the
\* snapshot declares: the conversion to unsigned changes no value.
C10_ReplicasIsTheDeclaredNumber ==
    (ret.op = "replicas" /\ TheHandle.spec.replicas.tag = "Some")
        => ret.result = Ok(TheHandle.spec.replicas.v)

-----------------------------------------------------------------------------
(* Claims about list() and scale(), under Spec *)

Succeeded(c) == calls[c].result = Ok("unit")
Failed(c) == calls[c].result = Err("Kube")

\* Handle i names the object scale() call c was made on.
SameObject(i, c) ==
    NamespaceAndName(handles[i]) = NamespaceAndName(handles[calls[c].h])

\* C2 as stated: scale(N) returned success and nothing wrote the object after
\* the return; then a handle listed after the return returns N from replicas().
C2_FreshReadAfterReturn ==
    \A i \in DOMAIN handles : \A c \in CallIds :
        ( /\ Succeeded(c) /\ SameObject(i, c)
          /\ c \in origin[i].returned
          /\ origin[i].ver = calls[c].verReturned )
            => Replicas(handles[i]) = Ok(calls[c].replicas)

\* C2, amended: scale(N) returned success and nothing wrote the object after
\* the server applied the call's patch (so neither while the call awaited the
\* answer); then a handle listed after the return returns N from replicas().
C2_FreshReadAfterPatch ==
    \A i \in DOMAIN handles : \A c \in CallIds :
        ( /\ Succeeded(c) /\ SameObject(i, c)
          /\ c \in origin[i].returned
          /\ origin[i].ver = calls[c].verApplied )
            => Replicas(handles[i]) = Ok(calls[c].replicas)

\* A handle listed after a successful scale(I32Max) on an older handle of the
\* same object, which had another count.
C2_Witness ==
    \E i \in DOMAIN handles : \E c \in CallIds :
        /\ Succeeded(c) /\ SameObject(i, c)
        /\ c \in origin[i].returned
        /\ origin[i].ver = calls[c].verApplied
        /\ calls[c].replicas = I32Max
        /\ Replicas(handles[i]) = Ok(I32Max)
        /\ Replicas(handles[calls[c].h]) # Ok(I32Max)

\* C3 as stated: of two successful scale() calls on one object, with no other
\* actor writing, the timestamp read on the return of the one that returns
\* later is no smaller than the timestamp read on the return of the other.
C3_TimestampNeverDecreases ==
    nEnv = 0 =>
        \A c1, c2 \in CallIds :
            ( /\ Succeeded(c1) /\ Succeeded(c2)
              /\ c1 \in calls[c2].retAfter
              /\ SameObject(calls[c1].h, c2)
              /\ calls[c1].readAfter.tag = "Some"
              /\ calls[c2].readAfter.tag = "Some" )
                => calls[c1].readAfter.v <= calls[c2].readAfter.v

\* C3, amended: of two successful scale() calls on one object that do not
\* overlap (the later began after the earlier had returned), the later stores
\* a timestamp no smaller than the one the earlier stored.
C3_SuccessiveTimestampsNonDecreasing ==
    \A c1, c2 \in CallIds :
        ( /\ Succeeded(c1) /\ Succeeded(c2)
          /\ c1 \in calls[c2].after
          /\ SameObject(calls[c1].h, c2) )
            => /\ calls[c1].stored.tag = "Some"
               /\ calls[c2].stored.tag = "Some"
               /\ calls[c1].stored.v <= calls[c2].stored.v

\* Two successive successful scale() calls on one object, the clock having
\* advanced twice before the second.
C3_Witness ==
    \E c1, c2 \in CallIds :
        /\ Succeeded(c1) /\ Succeeded(c2)
        /\ c1 \in calls[c2].after
        /\ SameObject(calls[c1].h, c2)
        /\ calls[c1].stored = Some(0)
        /\ calls[c2].stored = Some(MaxClock)

\* C4: whenever the last write to an object was the patch of a scale() call,
\* its replica count and its last_modified annotation are the target and the
\* stamp of that one call.
C4_ReplicasAndStampFromOnePatch ==
    \A o \in ObjIds :
        lastWriter[o] # 0 =>
            /\ remote[o].spec.replicas = Some(calls[lastWriter[o]].replicas)
            /\ StoredInstant(remote[o].metadata.annotations)
                   = Some(calls[lastWriter[o]].utc_now)

\* Two overlapping calls with different targets and stamps, both applied to
\* one object, the one that began first applied last.
C4_Witness ==
    \E o \in ObjIds :
        /\ lastWriter[o] = 1
        /\ calls[2].applied = 1 /\ calls[2].obj = o
        /\ calls[1].replicas # calls[2].replicas
        /\ calls[1].utc_now # calls[2].utc_now

\* C7: list() issues one list request, for the catalog's namespace and label
\* selector; a failed request gives TransportError (Error::Kube); an answered
\* one gives one handle per object of the answer, in its order, with the
\* catalog's namespace and the object's metadata and spec (none for an empty
\* answer).
C7_ListOneHandlePerObject ==
    listLog.called =>
        /\ listLog.requests = 1
        /\ listLog.request.namespace = listLog.res.namespace
        /\ listLog.request.label_selector = listLog.res.label_selector
        /\ IF listLog.response.tag = "Err"
           THEN listLog.result = Err("Kube")
           ELSE /\ listLog.result.tag = "Ok"
                /\ Len(listLog.result.v) = Len(listLog.response.v)
                /\ \A k \in DOMAIN listLog.response.v :
                      /\ listLog.result.v[k].namespace = listLog.res.namespace
                      /\ listLog.result.v[k].metadata = listLog.response.v[k].metadata
                      /\ listLog.result.v[k].spec = listLog.response.v[k].spec

\* A list() answered with two objects.
C7_Witness ==
    /\ listLog.called
    /\ listLog.result.tag = "Ok"
    /\ Len(listLog.result.v) = 2
    /\ listLog.result.v[1].metadata.name # listLog.result.v[2].metadata.name

\* C8 as stated, its last part: a scale() that returned an error has not
\* changed the remote object.
C8_FailedScaleChangedNothing ==
    \A c \in CallIds : Failed(c) => calls[c].applied = 0

\* C8, amended: a call issues at most one request and the server applies at
\* most one patch of it; a failure ends the call with TransportError
\* (Error::Kube) after that one request; a call whose request was refused or
\* lost has changed nothing, while one whose answer was lost may have.
C8_NoRetry ==
    /\ \A c \in CallIds :
          /\ calls[c].sent <= 1
          /\ calls[c].applied <= calls[c].sent
          /\ calls[c].pc = "refused" => calls[c].applied = 0
          /\ Failed(c) => calls[c].pc = "done" /\ calls[c].sent = 1
    /\ listLog.called =>
          /\ listLog.requests = 1
          /\ listLog.response.tag = "Err" => listLog.result = Err("Kube")

\* A scale() whose request was refused returned TransportError.
C8_Witness ==
    \E c \in CallIds : Failed(c) /\ calls[c].applied = 0 /\ calls[c].sent = 1

\* The snapshot of the object a handle names, as list() would take it now.
FreshObject(i) ==
    NewObject(handles[i].namespace, remote[origin[i].obj].metadata, remote[origin[i].obj].spec)

\* C9: the accessors of a handle return what they returned when list()
\* created it, whatever calls and writes followed; a handle listed at the
\* object's present version returns what the object holds.
C9_HandleIsADetachedSnapshot ==
    \A i \in DOMAIN handles :
        /\ Observe(handles[i]) = captured[i]
        /\ origin[i].ver = version[origin[i].obj]
              => Observe(handles[i]) = Observe(FreshObject(i))

\* After a successful scale() on handle i, i still returns the old count and
\* a handle listed later returns the new one.
C9_Witness ==
    \E i, j \in DOMAIN handles : \E c \in CallIds :
        /\ Succeeded(c) /\ calls[c].h = i
        /\ SameObject(j, c)
        /\ origin[j].ver = version[origin[j].obj]
        /\ Observe(handles[i]).replicas # Observe(handles[j]).replicas
        /\ Observe(handles[j]).replicas = Ok(calls[c].replicas)

====
